---- MODULE Spec2Model ----
(***************************************************************************)
(* Model of vite-plugin-resolve-barrels: the barrel resolver               *)
(* (src/utils/resolveExportThroughBarrel.ts) run against a file-system     *)
(* snapshot.  Paths and module specifiers are held as their '/'-separated   *)
(* segments; a file is the sequence of its top-level statements.           *)
(***************************************************************************)
EXTENDS Naturals, Sequences, FiniteSets, TLC

Null == [null |-> TRUE]

(***************************************************************************)
(* Strings and paths (node:path, posix flavour).  A path or a module       *)
(* specifier is held as what s.split('/') gives: "/p/src" is               *)
(* <<"", "p", "src">>, "./m" is <<".", "m">>, "pkg" is <<"pkg">>.          *)
(***************************************************************************)

\* s.startsWith(p) on strings
StartsWith(s, p) == Len(p) <= Len(s) /\ SubSeq(s, 1, Len(p)) = p

\* s.endsWith(p) on strings
EndsWith(s, p) == Len(p) <= Len(s) /\ SubSeq(s, Len(s) - Len(p) + 1, Len(s)) = p

\* segs.join('/'): the string a segment list stands for
RECURSIVE JoinSegs(_)
JoinSegs(segs) ==
  IF segs = <<>> THEN ""
  ELSE IF Len(segs) = 1 THEN segs[1]
  ELSE segs[1] \o "/" \o JoinSegs(Tail(segs))

\* path.isAbsolute(p)
IsAbsolute(p) == Len(p) > 1 /\ p[1] = ""

\* normalizeString of node:path: drops "" and ".", lets ".." remove the
\* segment before it; above the root of an absolute path ".." is dropped,
\* in a relative path it is kept.
RECURSIVE NormSegs(_, _, _)
NormSegs(segs, acc, abs) ==
  IF segs = <<>> THEN acc
  ELSE LET h == Head(segs)
           t == Tail(segs)
       IN IF h = "" \/ h = "." THEN NormSegs(t, acc, abs)
          ELSE IF h = ".."
               THEN IF acc # <<>> /\ acc[Len(acc)] # ".."
                    THEN NormSegs(t, SubSeq(acc, 1, Len(acc) - 1), abs)
                    ELSE IF abs THEN NormSegs(t, acc, abs)
                         ELSE NormSegs(t, Append(acc, ".."), abs)
               ELSE NormSegs(t, Append(acc, h), abs)

\* an absolute path of the given normalized segments ("/" for none)
Absolute(segs) == IF segs = <<>> THEN <<"", "">> ELSE <<"">> \o segs

\* path.resolve(base, p) for an absolute base
PathResolve(base, p) ==
  Absolute(NormSegs(IF IsAbsolute(p) THEN p ELSE base \o p, <<>>, TRUE))

\* path.join(a, b)
PathJoin(a, b) ==
  LET body == NormSegs(a \o b, <<>>, IsAbsolute(a))
  IN IF IsAbsolute(a) THEN Absolute(body) ELSE IF body = <<>> THEN <<".">> ELSE body

\* path.dirname(p) of a normalized absolute path
PathDirname(p) ==
  LET segs == NormSegs(p, <<>>, TRUE)
  IN IF segs = <<>> THEN <<"", "">> ELSE Absolute(SubSeq(segs, 1, Len(segs) - 1))

\* `${s}${ext}`
AppendText(s, ext) == [s EXCEPT ![Len(s)] = @ \o ext]

(***************************************************************************)
(* Program state                                                           *)
(***************************************************************************)
VARIABLES
  fs,          \* the file-system snapshot: file path -> top-level statements
  exportMap,   \* the Map<string, string> handed to the resolver
  barrelDir,   \* argument barrelDir
  exportName,  \* argument exportName of the running call
  visited,     \* const visited = new Set<string>()
  stack,       \* the call stack of walkIndex / processParentReexports frames
  walked,      \* r, the value walkIndex(barrelDir) returned
  result,      \* the value the call returned
  pc,          \* "idle" | "run" | "walked" | "done", "threw" after an exception
  memo,        \* what each exportName returned in the first call that resolved it
  parsedPath,  \* argument filePath of the last parseExportsFromFile call observed
  parsed,      \* the ExportInfo[] that call returned
  enabled,     \* options.enable ?? true
  directories, \* options.directories
  order,       \* the order fs.readdirSync lists names in
  maps,        \* const maps = new Map<string, Map<string, string>>()
  built,       \* buildStart has run
  code,        \* argument code of the last transform call: its top-level statements
  id,          \* argument id of the last transform call
  out          \* what that transform call returned

\* the state of the plugin
plugin == <<enabled, directories, order, maps, built, code, id, out>>

\* the state outside the resolver
others == <<parsedPath, parsed, plugin>>

vars == <<fs, exportMap, barrelDir, exportName, visited, stack, walked, result, pc, memo,
          others>>

(***************************************************************************)
(* Source text: a file is its sequence of top-level statements             *)
(***************************************************************************)
Undefined == "<undefined>"
\* an absent module specifier
NoModule == <<"<undefined>">>

\* export { prop as name } from 'module';   (prop = Undefined: no "as")
ExportFrom(name, prop, module) ==
  [kind |-> "ExportDeclaration", clause |-> "named",
   elements |-> <<[name |-> name, propertyName |-> prop]>>, module |-> module]

\* export * from 'module';
ExportStar(module) ==
  [kind |-> "ExportDeclaration", clause |-> "none", elements |-> <<>>, module |-> module]

\* an absent child node
NoNode == [kind |-> "<none>"]

Identifier(text) == [kind |-> "Identifier", text |-> text]

\* an element of a binding pattern: propertyName: name
BindingElement(propertyName, name) ==
  [kind |-> "BindingElement", propertyName |-> propertyName, name |-> name]

\* a hole in an array pattern
OmittedExpression == [kind |-> "OmittedExpression"]

\* { ... }
ObjectBindingPattern(elements) == [kind |-> "ObjectBindingPattern", elements |-> elements]

\* [ ... ]
ArrayBindingPattern(elements) == [kind |-> "ArrayBindingPattern", elements |-> elements]

\* const d1 = ..., d2 = ...; with its modifiers; a declaration is its name
VariableStatement(modifiers, declarations) ==
  [kind |-> "VariableStatement", modifiers |-> modifiers, declarations |-> declarations]

\* export const name = ...;
ExportConst(name) == VariableStatement({"export"}, <<Identifier(name)>>)

\* function, class, interface or enum declaration with its modifiers
Declaration(kind, modifiers, name) == [kind |-> kind, modifiers |-> modifiers, name |-> name]

\* export default expr;   export = expr;
ExportAssignment(isExportEquals) ==
  [kind |-> "ExportAssignment", isExportEquals |-> isExportEquals]

\* text the parser recovers from as a statement that exports nothing
Unparsed == [kind |-> "ExpressionStatement", parseError |-> TRUE]

\* the content of a file that cannot be read
Unreadable == <<[kind |-> "unreadable"]>>

(***************************************************************************)
(* parseExportsFromFile.ts                                                 *)
(***************************************************************************)
ExportInfo(name, local, isReexport, module) ==
  [name |-> name, local |-> local, isReexport |-> isReexport, module |-> module]

handleExportDeclaration(node) ==
  IF node.clause = "named"
  THEN [i \in 1..Len(node.elements) |->
          LET e == node.elements[i]
          IN ExportInfo(e.name,
                        IF e.propertyName # Undefined THEN e.propertyName ELSE e.name,
                        node.module # NoModule,
                        node.module)]
  ELSE IF node.module # NoModule
       THEN <<ExportInfo("*", Undefined, TRUE, node.module)>>
       ELSE <<>>

\* exports.push(...) of each sequence in turn
RECURSIVE Concat(_)
Concat(seqs) == IF seqs = <<>> THEN <<>> ELSE Head(seqs) \o Concat(Tail(seqs))

\* exports.push({ name })
DeclaredName(text) == ExportInfo(text, Undefined, FALSE, NoModule)

\* lines 42-48: the node an element of an array pattern is named by
ArrayElementName(el) ==
  IF el.kind # "BindingElement" THEN NoNode
  ELSE IF el.name.kind # "Identifier" /\ el.propertyName # NoNode
            /\ el.propertyName.kind = "Identifier"
       THEN el.propertyName
       ELSE el.name

\* lines 40-50
ArrayElementFacts(el) ==
  IF ArrayElementName(el).kind = "Identifier"
  THEN <<DeclaredName(ArrayElementName(el).text)>> ELSE <<>>

\* lines 56-60
ObjectElementFacts(el) ==
  IF el.kind = "BindingElement" /\ el.name.kind = "Identifier"
  THEN <<DeclaredName(el.name.text)>> ELSE <<>>

\* lines 31-61: the facts of one declaration, given by its name
DeclarationFacts(name) ==
  IF name.kind = "Identifier" THEN <<DeclaredName(name.text)>>
  ELSE IF name.kind = "ArrayBindingPattern"
       THEN Concat([i \in 1..Len(name.elements) |-> ArrayElementFacts(name.elements[i])])
       ELSE IF name.kind = "ObjectBindingPattern"
            THEN Concat([i \in 1..Len(name.elements) |-> ObjectElementFacts(name.elements[i])])
            ELSE <<>>

handleVariableStatement(node) ==
  Concat([i \in 1..Len(node.declarations) |-> DeclarationFacts(node.declarations[i])])

handleTypeDeclaration(node) ==
  IF node.name # NoNode /\ node.name.kind = "Identifier"
  THEN <<DeclaredName(node.name.text)>> ELSE <<>>

\* node.modifiers?.some((m) => m.kind === ts.SyntaxKind.ExportKeyword)
HasExportKeyword(node) == "export" \in node.modifiers

\* the forEachChild callback of parseExportsFromFile on one node
NodeFacts(node) ==
  IF node.kind = "ExportDeclaration" THEN handleExportDeclaration(node)
  ELSE IF node.kind = "VariableStatement"
       THEN IF HasExportKeyword(node) THEN handleVariableStatement(node) ELSE <<>>
       ELSE IF node.kind \in {"FunctionDeclaration", "ClassDeclaration",
                               "InterfaceDeclaration", "EnumDeclaration"}
            THEN IF HasExportKeyword(node) THEN handleTypeDeclaration(node) ELSE <<>>
            ELSE <<>>

ExportsOfNodes(nodes) == Concat([i \in 1..Len(nodes) |-> NodeFacts(nodes[i])])

IsFile(p) == p \in DOMAIN fs
IsDirectory(p) == \E f \in DOMAIN fs : Len(f) > Len(p) /\ SubSeq(f, 1, Len(p)) = p
\* fs.existsSync(p)
ExistsSync(p) == IsFile(p) \/ IsDirectory(p)

\* fs.readFileSync(p, 'utf8') returns: p is a file that can be read
Readable(p) == IsFile(p) /\ fs[p] # Unreadable

\* faulty variant: without the try/catch the exception reaches the caller
parseExportsUncaught(filePath) ==
  IF Readable(filePath) THEN ExportsOfNodes(fs[filePath]) ELSE <<[raised |-> TRUE]>>

\* readFileSync throws for a missing path, a directory or an unreadable
\* file: the catch returns []
parseExportsFromFile(filePath) ==
  IF Readable(filePath) THEN ExportsOfNodes(fs[filePath]) ELSE <<>>

(***************************************************************************)
(* isRelativeImport.ts, resolveModuleFile.ts                               *)
(***************************************************************************)
\* the null a path-valued function returns
NoFile == <<"<null>">>

\* module.startsWith('./') || module.startsWith('../')
isRelativeImport(module) == Len(module) > 1 /\ module[1] \in {".", ".."}

ModuleCandidates(moduleSpecifier) ==
  << moduleSpecifier,
     AppendText(moduleSpecifier, ".ts"),
     AppendText(moduleSpecifier, ".tsx"),
     AppendText(moduleSpecifier, ".js"),
     AppendText(moduleSpecifier, ".jsx"),
     PathJoin(moduleSpecifier, <<"index.ts">>),
     PathJoin(moduleSpecifier, <<"index.tsx">>),
     PathJoin(moduleSpecifier, <<"index.js">>),
     PathJoin(moduleSpecifier, <<"index.jsx">>) >>

\* the least element of a non-empty set of positions
First(S) == CHOOSE i \in S : \A j \in S : i <= j

\* the first of the full paths that is a file, null when none is
FirstFile(fulls) ==
  IF \E i \in 1..Len(fulls) : IsFile(fulls[i])
  THEN fulls[First({i \in 1..Len(fulls) : IsFile(fulls[i])})]
  ELSE NoFile

ResolveCandidates(baseDir, cands) ==
  FirstFile([i \in 1..Len(cands) |-> PathResolve(baseDir, cands[i])])

resolveModuleFile(baseDir, moduleSpecifier) ==
  ResolveCandidates(baseDir, ModuleCandidates(moduleSpecifier))

(***************************************************************************)
(* resolveExportThroughBarrel.ts: the four checks of one index file        *)
(***************************************************************************)
Result(resolved, importName, chain, external) ==
  [resolved |-> resolved, importName |-> importName, chain |-> chain, external |-> external]

\* ex.local ?? targetExportName
LocalOr(ex, targetExportName) == IF ex.local # Undefined THEN ex.local ELSE targetExportName

\* ex.module is neither undefined nor the empty string
HasModule(ex) == ex.module # NoModule /\ ex.module # <<"">>

\* a loop that returns the first non-null of what its iterations produce
FirstResult(rs) ==
  IF \E i \in 1..Len(rs) : rs[i] # Null
  THEN rs[First({i \in 1..Len(rs) : rs[i] # Null})]
  ELSE Null

\* faulty variant: an external re-export is returned without its flag
ExternalUnflagged(exports, targetExportName, idx) ==
  FirstResult([i \in 1..Len(exports) |->
     IF /\ exports[i].name = targetExportName
        /\ exports[i].isReexport
        /\ exports[i].module # NoModule /\ exports[i].module # <<"">>
        /\ ~isRelativeImport(exports[i].module)
     THEN Result(exports[i].module,
                 IF exports[i].local # Undefined THEN exports[i].local ELSE targetExportName,
                 <<idx>>, FALSE)
     ELSE Null])

\* faulty variant: the name asked for is returned instead of the source-side name
ExternalAsRequested(ex, targetExportName, idx) ==
  IF /\ ex.name = targetExportName
     /\ ex.isReexport
     /\ ex.module # NoModule /\ ex.module # <<"">>
     /\ ~isRelativeImport(ex.module)
  THEN Result(ex.module, targetExportName, <<idx>>, TRUE)
  ELSE Null

\* one iteration of checkExternalReexport's loop, Null to go on
ExternalReexportOf(ex, targetExportName, idx) ==
  IF /\ ex.name = targetExportName
     /\ ex.isReexport
     /\ HasModule(ex)
     /\ ~isRelativeImport(ex.module)
  THEN Result(ex.module, LocalOr(ex, targetExportName), <<idx>>, TRUE)
  ELSE Null

checkExternalReexport(exports, targetExportName, idx) ==
  FirstResult([i \in 1..Len(exports) |-> ExternalReexportOf(exports[i], targetExportName, idx)])

\* s.replace(/index\.(ts|tsx|js|jsx)$/, '') on the last segment of a path
StripSuffix(last) ==
  IF \E f \in {"index.ts", "index.tsx", "index.js", "index.jsx"} : EndsWith(last, f)
  THEN SubSeq(last, 1, Len(last)
         - Len(CHOOSE f \in {"index.ts", "index.tsx", "index.js", "index.jsx"} : EndsWith(last, f)))
  ELSE last

\* idx.replace(/index\.(ts|tsx|js|jsx)$/, '')
StripIndexName(idx) == [idx EXCEPT ![Len(idx)] = StripSuffix(@)]

\* faulty variant: the index file is returned instead of its directory
DirectExportAtIndex(ex, targetExportName, idx) ==
  IF ex.name = targetExportName /\ ~ex.isReexport
  THEN Result(idx, targetExportName, <<idx>>, FALSE)
  ELSE Null

\* one iteration of checkDirectExport's loop, Null to go on
DirectExportOf(ex, targetExportName, idx) ==
  IF ex.name = targetExportName /\ ~ex.isReexport
  THEN Result(StripIndexName(idx), targetExportName, <<idx>>, FALSE)
  ELSE Null

checkDirectExport(exports, targetExportName, idx) ==
  FirstResult([i \in 1..Len(exports) |-> DirectExportOf(exports[i], targetExportName, idx)])

\* fileExports.some((fe) => fe.name === localName && !fe.isReexport)
DeclaresDirectly(fileExports, localName) ==
  \E k \in 1..Len(fileExports) :
     fileExports[k].name = localName /\ ~fileExports[k].isReexport

\* lines 51-59: the target of a relative re-export, once resolved
RelativeTarget(target, localName, idx) ==
  IF /\ target # NoFile
     /\ IsFile(target)
     /\ DeclaresDirectly(parseExportsFromFile(target), localName)
  THEN Result(target, localName, <<idx, target>>, FALSE)
  ELSE Null

\* faulty variant: the barrel-side alias is looked up and returned
RelativeReexportAsRequested(ex, targetExportName, dir, idx) ==
  IF ~(ex.name = targetExportName /\ ex.isReexport /\ HasModule(ex)) THEN Null
  ELSE IF ~isRelativeImport(ex.module)
       THEN Result(ex.module, LocalOr(ex, targetExportName), <<idx>>, TRUE)
       ELSE RelativeTarget(resolveModuleFile(dir, ex.module), targetExportName, idx)

\* one iteration of checkRelativeReexport's loop, Null to go on
RelativeReexportOf(ex, targetExportName, dir, idx) ==
  IF ~(ex.name = targetExportName /\ ex.isReexport /\ HasModule(ex)) THEN Null
  ELSE IF ~isRelativeImport(ex.module)
       THEN Result(ex.module, LocalOr(ex, targetExportName), <<idx>>, TRUE)
       ELSE RelativeTarget(resolveModuleFile(dir, ex.module),
                           LocalOr(ex, targetExportName), idx)

checkRelativeReexport(exports, targetExportName, dir, idx) ==
  FirstResult([i \in 1..Len(exports) |->
                 RelativeReexportOf(exports[i], targetExportName, dir, idx)])

\* fileExports.some((fe) => fe.name === targetExportName)
HasExport(fileExports, targetExportName) ==
  \E k \in 1..Len(fileExports) : fileExports[k].name = targetExportName

\* lines 74-79: the target of a wildcard re-export, once resolved
WildcardTarget(target, targetExportName, idx) ==
  IF /\ target # NoFile
     /\ IsFile(target)
     /\ HasExport(parseExportsFromFile(target), targetExportName)
  THEN Result(target, targetExportName, <<idx, target>>, FALSE)
  ELSE Null

\* one iteration of checkWildcardReexport's loop, Null to go on
WildcardReexportOf(ex, targetExportName, dir, idx) ==
  IF ex.name = "*" /\ HasModule(ex)
  THEN WildcardTarget(resolveModuleFile(dir, ex.module), targetExportName, idx)
  ELSE Null

checkWildcardReexport(exports, targetExportName, dir, idx) ==
  FirstResult([i \in 1..Len(exports) |->
                 WildcardReexportOf(exports[i], targetExportName, dir, idx)])

\* lines 92-108: the four checks in order, the first result returned
IndexFileChecks(exports, dir, idx, targetExportName) ==
  FirstResult(<< checkExternalReexport(exports, targetExportName, idx),
                 checkDirectExport(exports, targetExportName, idx),
                 checkRelativeReexport(exports, targetExportName, dir, idx),
                 checkWildcardReexport(exports, targetExportName, dir, idx) >>)

\* visited.has(key) on entry of processIndexFile
AlreadyVisited(seen, idx) == idx \in seen

\* faulty variant: the key is not recorded
VisitedForget(seen, idx) == seen

\* visited.add(key)
VisitedAdd(seen, idx) == seen \cup {idx}

\* the value processIndexFile(dir, idx) returns under the visited set seen
processIndexFile(dir, idx, targetExportName, seen) ==
  IF AlreadyVisited(seen, idx) THEN Null
  ELSE IndexFileChecks(parseExportsFromFile(idx), dir, idx, targetExportName)

\* faulty variant: processIndexFile leaves the visited set as it was
VisitedAfterKeep(seen, idx) == seen

\* the visited set processIndexFile(dir, idx) leaves behind
VisitedAfter(seen, idx) ==
  IF AlreadyVisited(seen, idx) THEN seen ELSE VisitedAdd(seen, idx)

(***************************************************************************)
(* resolveExportThroughBarrel.ts: the traversal, one frame per call of     *)
(* walkIndex, processParentReexports or processSourceFileForReexports      *)
(***************************************************************************)
\* faulty variant: the JavaScript index files come first
IndexFilesJsFirst == <<"index.js", "index.jsx", "index.ts", "index.tsx">>

IndexFiles == <<"index.ts", "index.tsx", "index.js", "index.jsx">>

\* path.join(dir, f)
IndexPath(dir, j) == PathJoin(dir, <<IndexFiles[j]>>)

Frame(fn, dir, i, idx, node, found) ==
  [fn |-> fn, dir |-> dir, i |-> i, idx |-> idx, node |-> node, found |-> found]

Top(stk) == stk[Len(stk)]
Pop(stk) == SubSeq(stk, 1, Len(stk) - 1)
ReplaceTop(stk, f) == Append(Pop(stk), f)

\* the least of a set of positions of IndexFiles, one past the end when empty
FirstOrEnd(S) == IF S = {} THEN Len(IndexFiles) + 1 ELSE First(S)

\* the first position from i on whose index file exists (walkIndex's loop)
NextExisting(dir, i) ==
  FirstOrEnd({j \in i..Len(IndexFiles) : ExistsSync(IndexPath(dir, j))})

\* faulty variant: visited index files are not skipped
NextUnvisitedOrNot(dir, i, seen) ==
  FirstOrEnd({j \in i..Len(IndexFiles) : ExistsSync(IndexPath(dir, j))})

\* the first position from i on whose index file exists and is not visited
\* (processParentReexports' loop)
NextUnvisited(dir, i, seen) ==
  FirstOrEnd({j \in i..Len(IndexFiles) :
                ExistsSync(IndexPath(dir, j)) /\ IndexPath(dir, j) \notin seen})

\* found = { resolved, importName, chain: [idx, ...res.chain] }
PrefixedResult(idx, res) == Result(res.resolved, res.importName, <<idx>> \o res.chain, FALSE)

\* the callback of processSourceFileForReexports gets what walkIndex returned
Resume(c, r) ==
  [c EXCEPT !.found = IF r # Null THEN PrefixedResult(c.idx, r) ELSE c.found,
            !.node = c.node + 1]

\* the frames below stk's top after it has returned r to its caller
Deliver(rest, r) == IF rest = <<>> THEN rest ELSE ReplaceTop(rest, Resume(Top(rest), r))

\* the top frame of stk returns r: to the frame below it, or out of the
\* outermost walkIndex into r of line 176
Return(stk, r) ==
  /\ stack' = Deliver(Pop(stk), r)
  /\ walked' = IF Len(stk) = 1 THEN r ELSE walked
  /\ pc' = IF Len(stk) = 1 THEN "walked" ELSE pc

\* the top frame of stk goes on as frame f
Continue(stk, f) ==
  /\ stack' = ReplaceTop(stk, f)
  /\ UNCHANGED <<walked, pc>>

\* the top frame of stk goes on as frame f and calls frame g
Invoke(stk, f, g) ==
  /\ stack' = Append(ReplaceTop(stk, f), g)
  /\ UNCHANGED <<walked, pc>>

\* faulty variant: the visited set of the previous call is kept
StaleVisited == visited

\* const visited = new Set<string>()
FreshVisited == {}

\* no value recorded yet
NotYet == [pending |-> TRUE]

\* the first value returned for a name is kept when the next call begins
Remember(m, name, r) == IF m[name] = NotYet THEN [m EXCEPT ![name] = r] ELSE m

\* resolveExportThroughBarrel(barrelDir, name, exportMap) is entered
Call(name) ==
  /\ pc \in {"idle", "done"}
  /\ memo' = IF pc = "done" THEN Remember(memo, exportName, result) ELSE memo
  /\ exportName' = name
  /\ visited' = FreshVisited
  /\ stack' = <<Frame("walkIndex", barrelDir, 1, NoFile, 1, Null)>>
  /\ walked' = Null
  /\ result' = Null
  /\ pc' = "run"
  /\ UNCHANGED <<fs, exportMap, barrelDir, others>>

\* lines 168-169: result = processIndexFile(dir, idx); if (result) return result
WalkIndexResult(top, j, r) ==
  IF r # Null THEN Return(stack, r) ELSE Continue(stack, [top EXCEPT !.i = j + 1])

\* lines 165-169 for the index file at position j
WalkIndexFile(top, j, idx) ==
  /\ visited' = VisitedAfter(visited, idx)
  /\ WalkIndexResult(top, j, processIndexFile(top.dir, idx, exportName, visited))

\* the loop of walkIndex at position j, and line 173 after its end
WalkIndexAt(top, j) ==
  IF j > Len(IndexFiles)
  THEN /\ Continue(stack, Frame("processParentReexports", top.dir, 1, NoFile, 1, Null))
       /\ UNCHANGED visited
  ELSE WalkIndexFile(top, j, IndexPath(top.dir, j))

\* walkIndex(dir): the next existing index file goes through processIndexFile;
\* after the last one the frame becomes processParentReexports(dir)
WalkIndex ==
  /\ pc = "run"
  /\ stack # <<>>
  /\ Top(stack).fn = "walkIndex"
  /\ WalkIndexAt(Top(stack), NextExisting(Top(stack).dir, Top(stack).i))
  /\ UNCHANGED <<fs, exportMap, barrelDir, exportName, result, memo, others>>

\* lines 121-124 for the index file idx at position j
ParentAtFile(top, j, idx) ==
  IF ~Readable(idx)
  THEN \* fs.readFileSync(idx, 'utf8') throws
       /\ pc' = "threw"
       /\ UNCHANGED <<stack, walked>>
  ELSE Invoke(stack, [top EXCEPT !.i = j],
              Frame("processSourceFileForReexports", top.dir, j, idx, 1, Null))

\* the loop of processParentReexports at position j, line 128 after its end
ParentAt(top, j) ==
  IF j > Len(IndexFiles) THEN Return(stack, Null)
  ELSE ParentAtFile(top, j, IndexPath(top.dir, j))

\* line 125 and 157: processSourceFileForReexports returns found
SourceReturn(top, parent) ==
  IF top.found # Null THEN Return(Pop(stack), top.found)
  ELSE Continue(Pop(stack), [parent EXCEPT !.i = parent.i + 1])

\* line 141
CandidateDir(target) == IF IsFile(target) THEN PathDirname(target) ELSE target

\* lines 140-153 with the target the module specifier resolved to
SourceAtTarget(top, target) ==
  IF top.found = Null /\ target # NoFile /\ CandidateDir(target) # top.dir
  THEN \* walkIndex(candidateDir)
       Invoke(stack, top, Frame("walkIndex", CandidateDir(target), 1, NoFile, 1, Null))
  ELSE Continue(stack, [top EXCEPT !.node = top.node + 1])

\* the forEachChild callback on one top-level node
SourceAtNode(top, node) ==
  SourceAtTarget(top, IF node.kind = "ExportDeclaration" /\ node.module # NoModule
                      THEN resolveModuleFile(top.dir, node.module)
                      ELSE NoFile)

\* processSourceFileForReexports over the top-level nodes of idx
SourceAt(top, nodes) ==
  IF top.node > Len(nodes) THEN SourceReturn(top, Top(Pop(stack)))
  ELSE SourceAtNode(top, nodes[top.node])

\* one step of processParentReexports(dir) or of the
\* processSourceFileForReexports(sourceFile, dir, idx) it calls
ParentReexports ==
  /\ pc = "run"
  /\ stack # <<>>
  /\ Top(stack).fn \in {"processParentReexports", "processSourceFileForReexports"}
  /\ IF Top(stack).fn = "processParentReexports"
     THEN ParentAt(Top(stack), NextUnvisited(Top(stack).dir, Top(stack).i, visited))
     ELSE SourceAt(Top(stack), fs[Top(stack).idx])
  /\ UNCHANGED <<fs, exportMap, barrelDir, exportName, visited, result, memo, others>>

\* process.cwd()
Cwd == <<"", "p">>

\* the chain entry '<exportMap>'
ExportMapMark == <<"<exportMap>">>

\* faulty variant: only the barrel directory itself is accepted
InScopeExact(candidate, dir) == JoinSegs(candidate) = JoinSegs(PathResolve(Cwd, dir))

\* candidate?.startsWith(path.resolve(barrelDir))
InScope(candidate, dir) == StartsWith(JoinSegs(candidate), JoinSegs(PathResolve(Cwd, dir)))

\* the fallback quick path (lines 180-189)
QuickPath(dir, name, map) ==
  IF name \in DOMAIN map /\ InScope(map[name], dir)
  THEN Result(map[name], name, <<ExportMapMark>>, FALSE)
  ELSE Null

\* lines 176-189: r of walkIndex, else the quick path
Returned(r, dir, name, map) == IF r # Null THEN r ELSE QuickPath(dir, name, map)

\* what walkIndex(dir) returns to line 176 under a fresh visited set: the
\* first result processIndexFile gives on the existing index files of dir
\* (processParentReexports then finds each of them visited)
walkIndex(dir, name) ==
  FirstResult([j \in 1..Len(IndexFiles) |->
                 IF ExistsSync(IndexPath(dir, j))
                 THEN processIndexFile(dir, IndexPath(dir, j), name, FreshVisited)
                 ELSE Null])

\* the value of one call resolveExportThroughBarrel(dir, name, map)
resolveExportThroughBarrel(dir, name, map) == Returned(walkIndex(dir, name), dir, name, map)

\* faulty variant: the call stores what it found in the exportMap
FinishAndCache ==
  /\ pc = "walked"
  /\ result' = Returned(walked, barrelDir, exportName, exportMap)
  /\ exportMap' = IF walked # Null /\ IsAbsolute(walked.resolved)
                  THEN [n \in DOMAIN exportMap \cup {exportName} |->
                          IF n = exportName THEN walked.resolved ELSE exportMap[n]]
                  ELSE exportMap
  /\ pc' = "done"
  /\ UNCHANGED <<fs, barrelDir, exportName, visited, stack, walked, memo, others>>

\* if (r) return r; otherwise the quick path; the call returns
Finish ==
  /\ pc = "walked"
  /\ result' = Returned(walked, barrelDir, exportName, exportMap)
  /\ pc' = "done"
  /\ UNCHANGED <<fs, exportMap, barrelDir, exportName, visited, stack, walked, memo, others>>

(***************************************************************************)
(* The snapshots and inputs explored                                       *)
(***************************************************************************)
MaxStmts == 2

Names == {"X", "Y"}

BarrelA == <<"", "p", "src", "w", "a">>          \* the barrel resolved from
BarrelB == <<"", "p", "src", "w", "ab">>         \* a sibling whose path extends BarrelA's
NestedDir == <<"", "p", "src", "w", "a", "n">>   \* a barrel nested in BarrelA

IndexTs == BarrelA \o <<"index.ts">>
IndexJs == BarrelA \o <<"index.js">>
ModuleA == BarrelA \o <<"m.ts">>
NestedIndex == NestedDir \o <<"index.ts">>
NestedModule == NestedDir \o <<"m.ts">>
ModuleB == BarrelB \o <<"m.ts">>

Pkg == <<"pkg">>            \* 'pkg'
DotM == <<".", "m">>        \* './m'
DotN == <<".", "n">>        \* './n'
DotIndex == <<".", "index">>       \* './index'
UpIndex == <<"..", "index">>       \* '../index'
UpM == <<"..", "m">>               \* '../m'

Absent == <<[kind |-> "absent"]>>

IndexStmts ==
  { ExportFrom("X", "Y", Pkg),
    ExportConst("X"),
    ExportFrom("X", "Y", DotM),
    ExportFrom("X", Undefined, DotN),
    ExportStar(DotM),
    ExportStar(DotN) }

IndexTsContents == {Absent} \cup UNION {[1..n -> IndexStmts] : n \in 0..MaxStmts}
IndexJsContents == {Absent, <<ExportConst("X")>>, <<ExportStar(DotIndex)>>, Unreadable}
NestedIndexContents ==
  {Absent, <<ExportConst("X")>>, <<ExportFrom("X", Undefined, UpM)>>, <<ExportStar(UpIndex)>>}
ModuleContents == {Absent, <<ExportConst("X")>>, <<ExportConst("Y")>>}

Slots(ts, js, nested, m) ==
  [p \in {IndexTs, IndexJs, NestedIndex, ModuleA, NestedModule, ModuleB} |->
     CASE p = IndexTs -> ts
       [] p = IndexJs -> js
       [] p = NestedIndex -> nested
       [] p = ModuleA -> m
       [] OTHER -> <<ExportConst("X")>>]

Snapshot(ts, js, nested, m) ==
  LET slots == Slots(ts, js, nested, m)
  IN [p \in {q \in DOMAIN slots : slots[q] # Absent} |-> slots[p]]

Snapshots ==
  { Snapshot(ts, js, nested, m) : ts \in IndexTsContents, js \in IndexJsContents,
                                  nested \in NestedIndexContents, m \in ModuleContents }

ExportMaps ==
  { <<>> } \cup { [n \in {"X"} |-> f] : f \in {ModuleA, NestedModule, ModuleB} }

\* no resolver call has been made
ResolverIdle ==
  /\ barrelDir = BarrelA
  /\ exportName = Undefined
  /\ visited = {}
  /\ stack = <<>>
  /\ walked = Null
  /\ result = Null
  /\ pc = "idle"
  /\ memo = [n \in Names |-> NotYet]

\* no parseExportsFromFile call has been observed
ParserIdle ==
  /\ parsedPath = NoFile
  /\ parsed = <<>>

\* no plugin has been created
PluginIdle ==
  /\ enabled = TRUE
  /\ directories = <<>>
  /\ order = <<>>
  /\ maps = <<>>
  /\ built = FALSE
  /\ code = <<>>
  /\ id = NoFile
  /\ out = Null

Init ==
  /\ fs \in Snapshots
  /\ exportMap \in ExportMaps
  /\ ResolverIdle
  /\ ParserIdle
  /\ PluginIdle

Next ==
  \/ \E name \in Names : Call(name)
  \/ WalkIndex
  \/ ParentReexports
  \/ Finish

Spec == Init /\ [][Next]_vars

(***************************************************************************)
(* parseExportsFromFile on its own: one source file of up to MaxParsed     *)
(* statements, or a path that is missing, a directory or unreadable        *)
(***************************************************************************)
MaxParsed == 2

\* [X, Y]
ArrayXY ==
  ArrayBindingPattern(<<BindingElement(NoNode, Identifier("X")),
                        BindingElement(NoNode, Identifier("Y"))>>)
\* [, Y]
ArrayHoleY == ArrayBindingPattern(<<OmittedExpression, BindingElement(NoNode, Identifier("Y"))>>)
\* { X, Y }
ObjectXY ==
  ObjectBindingPattern(<<BindingElement(NoNode, Identifier("X")),
                         BindingElement(NoNode, Identifier("Y"))>>)
\* { c: X }
ObjectRenamed == ObjectBindingPattern(<<BindingElement(Identifier("c"), Identifier("X"))>>)
\* [{ x: X }, Y]
ArrayNested ==
  ArrayBindingPattern(<<BindingElement(NoNode, ObjectRenamed),
                        BindingElement(NoNode, Identifier("Y"))>>)
\* { a: { c: X } }
ObjectNested == ObjectBindingPattern(<<BindingElement(Identifier("a"), ObjectRenamed)>>)

ParsedStmts ==
  { ExportConst("X"),
    VariableStatement({}, <<Identifier("X")>>),                 \* const X = ...
    VariableStatement({"export"}, <<ArrayXY>>),
    VariableStatement({"export"}, <<ArrayHoleY>>),
    VariableStatement({"export"}, <<ObjectXY>>),
    VariableStatement({"export"}, <<ObjectRenamed>>),
    VariableStatement({"export"}, <<ArrayNested>>),
    VariableStatement({"export"}, <<ObjectNested>>),
    Declaration("FunctionDeclaration", {"export"}, Identifier("X")),
    Declaration("ClassDeclaration", {"export"}, Identifier("X")),
    Declaration("InterfaceDeclaration", {"export"}, Identifier("X")),
    Declaration("EnumDeclaration", {"export"}, Identifier("X")),
    Declaration("FunctionDeclaration", {}, Identifier("X")),               \* function X
    Declaration("FunctionDeclaration", {"export", "default"}, Identifier("X")),
    Declaration("ClassDeclaration", {"export", "default"}, Identifier("X")),
    Declaration("FunctionDeclaration", {"export", "default"}, NoNode),
    ExportAssignment(FALSE),
    ExportAssignment(TRUE),
    ExportFrom("default", Undefined, DotM),       \* export { default } from './m'
    ExportFrom("X", "default", DotM),             \* export { default as X } from './m'
    ExportFrom("X", "Y", DotM),
    ExportFrom("X", Undefined, NoModule),         \* export { X }
    ExportStar(DotM),
    Unparsed }

ParsedTexts == UNION {[1..n -> ParsedStmts] : n \in 0..MaxParsed}

\* the file ModuleA with a text, unreadable, missing, or a directory
ParsedSnapshots ==
  {[p \in {ModuleA} |-> t] : t \in ParsedTexts \cup {Unreadable}}
  \cup {<<>>}
  \cup {[p \in {ModuleA \o <<"k.ts">>} |-> <<ExportConst("X")>>]}

InitParse ==
  /\ fs \in ParsedSnapshots
  /\ exportMap = <<>>
  /\ ResolverIdle
  /\ ParserIdle
  /\ PluginIdle

Parse ==
  /\ parsedPath' = ModuleA
  /\ parsed' = parseExportsFromFile(ModuleA)
  /\ UNCHANGED <<fs, exportMap, barrelDir, exportName, visited, stack, walked, result, pc,
                 memo, plugin>>

NextParse == Parse

SpecParse == InitParse /\ [][NextParse]_vars

(***************************************************************************)
(* buildExportMap.ts                                                       *)
(***************************************************************************)
\* exportMap.set(k, v)
MapSet(map, k, v) == [n \in DOMAIN map \cup {k} |-> IF n = k THEN v ELSE map[n]]

\* /\.(ts|tsx|js|jsx)$/.test(p)
HasSourceExt(p) == \E ext \in {".ts", ".tsx", ".js", ".jsx"} : EndsWith(p[Len(p)], ext)

\* the names directly inside directory p
EntryNames(p) == {f[Len(p) + 1] : f \in {g \in DOMAIN fs : Len(g) > Len(p) /\ SubSeq(g, 1, Len(p)) = p}}

IsEntry(p, name) == name \in EntryNames(p)

\* fs.readdirSync(p): the names inside p in the order the file system lists them
ReadDir(p) == SelectSeq(order, LAMBDA name : IsEntry(p, name))

\* faulty variant: a later file replaces the entry of an earlier one
AddExportLastWins(map, ex, p) ==
  IF ex.name = "*" THEN map
  ELSE IF ~ex.isReexport THEN MapSet(map, ex.name, p) ELSE map

\* lines 19-25: the forEach callback on one fact
AddExport(map, ex, p) ==
  IF ex.name = "*" THEN map
  ELSE IF ~ex.isReexport /\ ex.name \notin DOMAIN map THEN MapSet(map, ex.name, p) ELSE map

\* exports.forEach(...) of lines 19-25
RECURSIVE AddExports(_, _, _)
AddExports(map, exports, p) ==
  IF exports = <<>> THEN map
  ELSE AddExports(AddExport(map, Head(exports), p), Tail(exports), p)

\* walk(p) of lines 12-27, as the map it leaves behind
RECURSIVE Walk(_, _)
RECURSIVE WalkEntries(_, _, _)
WalkEntries(map, entries, p) ==
  IF entries = <<>> THEN map
  ELSE WalkEntries(Walk(map, PathJoin(p, <<Head(entries)>>)), Tail(entries), p)

Walk(map, p) ==
  IF IsDirectory(p) THEN WalkEntries(map, ReadDir(p), p)
  ELSE IF IsFile(p) /\ HasSourceExt(p) THEN AddExports(map, parseExportsFromFile(p), p)
       ELSE map

buildExportMap(rootDir, dir) ==
  IF ~ExistsSync(PathResolve(rootDir, dir)) THEN <<>>
  ELSE Walk(<<>>, PathResolve(rootDir, dir))

(***************************************************************************)
(* index.ts: the plugin                                                    *)
(***************************************************************************)
\* path.join(projectRoot, 'src')
SrcRoot == PathJoin(Cwd, <<"src">>)

\* the elements of a sequence
Range(seq) == {seq[i] : i \in 1..Len(seq)}

\* buildStart(): lines 45-64 (the log file is not modelled); the host runs
\* this hook before the transform calls of a build
BuildStart ==
  /\ ~built
  /\ id = NoFile
  /\ built' = TRUE
  /\ maps' = IF enabled
             THEN [d \in Range(directories) |-> buildExportMap(SrcRoot, d)]
             ELSE maps
  /\ UNCHANGED <<fs, exportMap, barrelDir, exportName, visited, stack, walked, result, pc,
                 memo, parsedPath, parsed, enabled, directories, order, code, id, out>>

\* the length of the longest common prefix of two segment lists
RECURSIVE CommonLen(_, _)
CommonLen(a, b) ==
  IF a = <<>> \/ b = <<>> THEN 0
  ELSE IF Head(a) # Head(b) THEN 0
  ELSE 1 + CommonLen(Tail(a), Tail(b))

\* n times ".."
Ups(n) == [i \in 1..n |-> ".."]

\* path.relative(from, to) for absolute paths, as segments
RelativeSegs(f, t) == Ups(Len(f) - CommonLen(f, t)) \o SubSeq(t, CommonLen(f, t) + 1, Len(t))

\* path.relative(from, to).replace(/\\/g, '/')
PathRelative(from, to) == JoinSegs(RelativeSegs(NormSegs(from, <<>>, TRUE), NormSegs(to, <<>>, TRUE)))

\* s.slice(a, b) on strings, for 0 <= a
Slice(s, a, b) == SubSeq(s, a + 1, IF b < Len(s) THEN b ELSE Len(s))

\* relPath.replace(/\.(ts|tsx|js|jsx)$/, '')
StripExtension(s) ==
  IF EndsWith(s, ".tsx") \/ EndsWith(s, ".jsx") THEN Slice(s, 0, Len(s) - 4)
  ELSE IF EndsWith(s, ".ts") \/ EndsWith(s, ".js") THEN Slice(s, 0, Len(s) - 3)
  ELSE s

\* lines.join('\n')
RECURSIVE JoinLines(_)
JoinLines(lines) ==
  IF lines = <<>> THEN ""
  ELSE IF Len(lines) = 1 THEN lines[1]
  ELSE lines[1] \o "\n" \o JoinLines(Tail(lines))

\* the statements of the file handed to transform
ImportSpecifier(propertyName, name) ==
  [kind |-> "ImportSpecifier", propertyName |-> propertyName, name |-> name]

NamedImports(elements) == [kind |-> "NamedImports", elements |-> elements]

NamespaceImport(name) == [kind |-> "NamespaceImport", name |-> name]

\* import <name>, <namedBindings> from '<moduleSpecifier>';  either part may be missing
ImportDeclaration(name, namedBindings, moduleSpecifier) ==
  [kind |-> "ImportDeclaration", name |-> name, namedBindings |-> namedBindings,
   moduleSpecifier |-> moduleSpecifier]

ExpressionStatement(text) == [kind |-> "ExpressionStatement", text |-> text]

\* the source text of one import specifier
SpecifierText(el) ==
  IF el.propertyName # Undefined THEN el.propertyName \o " as " \o el.name ELSE el.name

RECURSIVE JoinComma(_)
JoinComma(texts) ==
  IF texts = <<>> THEN ""
  ELSE IF Len(texts) = 1 THEN texts[1]
  ELSE texts[1] \o ", " \o JoinComma(Tail(texts))

BindingsText(b) ==
  IF b.kind = "NamespaceImport" THEN "* as " \o b.name
  ELSE IF b.elements = <<>> THEN "{}"
  ELSE "{ " \o JoinComma([i \in 1..Len(b.elements) |-> SpecifierText(b.elements[i])]) \o " }"

ClauseText(node) ==
  IF node.namedBindings = NoNode THEN node.name
  ELSE IF node.name = Undefined THEN BindingsText(node.namedBindings)
  ELSE node.name \o ", " \o BindingsText(node.namedBindings)

\* code.slice(node.getStart(), node.getEnd())
NodeText(node) ==
  IF node.kind = "ImportDeclaration"
  THEN "import " \o ClauseText(node) \o " from '" \o JoinSegs(node.moduleSpecifier) \o "';"
  ELSE node.text

\* the argument code of transform: the statements one per line
CodeText(nodes) == JoinLines([i \in 1..Len(nodes) |-> NodeText(nodes[i])])

\* node.getStart() of the k-th statement
RECURSIVE GetStart(_, _)
GetStart(nodes, k) ==
  IF k = 1 THEN 0 ELSE GetStart(nodes, k - 1) + Len(NodeText(nodes[k - 1])) + 1

\* node.getEnd()
GetEnd(nodes, k) == GetStart(nodes, k) + Len(NodeText(nodes[k]))

\* faulty variant: every module id is transformed
IdAlways(i) == TRUE

\* /\.(ts|tsx|js|jsx)$/.test(id)
IdMatches(i) == HasSourceExt(i)

\* line 99: spec === dir || spec.startsWith(`${dir}/`)
DirMatches(spec, dir) ==
  JoinSegs(spec) = JoinSegs(dir) \/ StartsWith(JoinSegs(spec), JoinSegs(dir) \o "/")

\* line 102: path.resolve(projectRoot, 'src', relToSrc, 'index.ts')
BarrelIndexPath(spec) == PathResolve(Cwd, <<"src">> \o spec \o <<"index.ts">>)

\* line 107: the import clause has named imports
HasNamedImports(node) == node.namedBindings # NoNode /\ node.namedBindings.kind = "NamedImports"

\* lines 99-107: the conditions under which directory dir makes an edit of node
Rewrites(node, dir) ==
  /\ node.kind = "ImportDeclaration"
  /\ DirMatches(node.moduleSpecifier, dir)
  /\ ExistsSync(BarrelIndexPath(node.moduleSpecifier))
  /\ HasNamedImports(node)

\* line 115-117
OriginalName(el) == IF el.propertyName # Undefined THEN el.propertyName ELSE el.name

\* line 120: maps.get(dir) ?? new Map()
DirMap(dir) == IF dir \in DOMAIN maps THEN maps[dir] ELSE <<>>

\* lines 121-125
ResolveElement(el, spec, dir) ==
  resolveExportThroughBarrel(PathResolve(Cwd, <<"src">> \o spec), OriginalName(el), DirMap(dir))

\* line 130: resolved.importName || originalName
ActualExportName(r, el) ==
  IF r.importName = Undefined \/ r.importName = "" THEN OriginalName(el) ELSE r.importName

\* lines 132-136 and 141-145
ImportText(exported, localName, from) ==
  IF exported = localName
  THEN "import { " \o exported \o " } from '" \o from \o "';"
  ELSE "import { " \o exported \o " as " \o localName \o " } from '" \o from \o "';"

\* lines 139-140
LocalPath(relPath) == StripExtension(IF StartsWith(relPath, ".") THEN relPath ELSE "./" \o relPath)

\* lines 127-146: the replacement of a resolved element
Replacement(r, el, fileDir) ==
  IF r.external
  THEN ImportText(ActualExportName(r, el), el.name, JoinSegs(r.resolved))
  ELSE ImportText(ActualExportName(r, el), el.name, LocalPath(PathRelative(fileDir, r.resolved)))

\* lines 111-151: the replacements array, null for an unresolved element
ReplacementOf(el, spec, dir, fileDir) ==
  IF ResolveElement(el, spec, dir) = Null THEN Null
  ELSE [text |-> Replacement(ResolveElement(el, spec, dir), el, fileDir)]

Replacements(node, dir, fileDir) ==
  [i \in 1..Len(node.namedBindings.elements) |->
     ReplacementOf(node.namedBindings.elements[i], node.moduleSpecifier, dir, fileDir)]

IsText(r) == r # Null

\* line 154: replacements.filter((r) => Boolean(r))
ResolvedImports(reps) ==
  [i \in 1..Len(SelectSeq(reps, IsText)) |-> SelectSeq(reps, IsText)[i].text]

\* lines 154-163
NewText(reps, original) ==
  IF \E i \in 1..Len(reps) : reps[i] = Null
  THEN JoinLines(ResolvedImports(reps) \o <<original>>)
  ELSE JoinLines(ResolvedImports(reps))

\* line 172: the edit directory dir makes of the k-th statement
EditOf(nodes, k, dir, fileDir) ==
  [start |-> GetStart(nodes, k), end |-> GetEnd(nodes, k),
   text |-> NewText(Replacements(nodes[k], dir, fileDir), NodeText(nodes[k]))]

\* lines 97-175: the edits of the k-th statement, one for each directory that matches
NodeEdits(nodes, k, fileDir) ==
  Concat([j \in 1..Len(directories) |->
            IF Rewrites(nodes[k], directories[j])
            THEN <<EditOf(nodes, k, directories[j], fileDir)>> ELSE <<>>])

\* visit(sourceFile): importEdits in the order they are pushed
ImportEdits(nodes, fileDir) == Concat([k \in 1..Len(nodes) |-> NodeEdits(nodes, k, fileDir)])

\* importEdits.sort((a, b) => b.start - a.start): stable, descending start
RECURSIVE InsertEdit(_, _)
InsertEdit(sorted, e) ==
  IF sorted = <<>> THEN <<e>>
  ELSE IF sorted[Len(sorted)].start >= e.start THEN Append(sorted, e)
  ELSE Append(InsertEdit(SubSeq(sorted, 1, Len(sorted) - 1), e), sorted[Len(sorted)])

RECURSIVE SortEdits(_)
SortEdits(edits) ==
  IF edits = <<>> THEN <<>>
  ELSE InsertEdit(SortEdits(SubSeq(edits, 1, Len(edits) - 1)), edits[Len(edits)])

\* lines 188-190
RECURSIVE ApplyEdits(_, _)
ApplyEdits(text, edits) ==
  IF edits = <<>> THEN text
  ELSE ApplyEdits(Slice(text, 0, Head(edits).start) \o Head(edits).text
                    \o Slice(text, Head(edits).end, Len(text)),
                  Tail(edits))

\* transform(code, id), lines 76-193 (the log is not modelled)
transform(nodes, i) ==
  IF ~enabled THEN Null
  ELSE IF ~IdMatches(i) THEN Null
  ELSE IF ImportEdits(nodes, PathDirname(i)) = <<>> THEN Null
  ELSE [code |-> ApplyEdits(CodeText(nodes), SortEdits(ImportEdits(nodes, PathDirname(i))))]

(***************************************************************************)
(* The plugin on its own: the configurations, snapshots and files explored *)
(***************************************************************************)
MaxCode == 2

DirW == <<"w">>           \* 'w'
DirWA == <<"w", "a">>     \* 'w/a'
DirWAB == <<"w", "ab">>   \* 'w/ab'
DirV == <<"v">>           \* 'v', which does not exist under src

PluginDirectories == { <<DirW>>, <<DirWA>>, <<DirW, DirWA>>, <<DirV>> }

\* the names of the snapshots, in the two orders readdirSync is given
ReaddirOrders ==
  { <<"a", "ab", "index.js", "index.ts", "m.ts", "n", "notes.md">>,
    <<"notes.md", "n", "m.ts", "index.ts", "index.js", "ab", "a">> }

\* a file of the barrel that is no source file
Notes == BarrelA \o <<"notes.md">>

PluginIndexContents ==
  { Absent, <<>>, <<ExportFrom("X", "Y", Pkg)>>, <<ExportFrom("X", "Y", DotM)>>,
    <<ExportStar(DotN)>>, <<ExportConst("X")>> }

PluginSnapshots ==
  { Snapshot(ts, Absent, Absent, m) @@ (Notes :> <<ExportConst("Z")>>) :
      ts \in PluginIndexContents, m \in {<<ExportConst("X")>>, <<ExportConst("Y")>>} }

Consumer == <<"", "p", "src", "c", "f.ts">>     \* a file outside the barrels
Inside == BarrelA \o <<"f.tsx">>                \* a file inside the barrel
Stylesheet == <<"", "p", "src", "c", "f.css">>  \* no source file

ModuleIds == {Consumer, Inside, Stylesheet}

ImportNamed(elements, spec) == ImportDeclaration(Undefined, NamedImports(elements), spec)

CodeStmts ==
  { ImportNamed(<<ImportSpecifier(Undefined, "X")>>, DirWA),
    ImportNamed(<<ImportSpecifier("X", "Z")>>, DirWA),
    ImportNamed(<<ImportSpecifier(Undefined, "X"), ImportSpecifier(Undefined, "Y")>>, DirWA),
    ImportNamed(<<>>, DirWA),
    ImportDeclaration("D", NoNode, DirWA),
    ImportDeclaration(Undefined, NamespaceImport("ns"), DirWA),
    ImportNamed(<<ImportSpecifier(Undefined, "X")>>, DirWAB),
    ImportNamed(<<ImportSpecifier(Undefined, "X")>>, Pkg),
    ImportDeclaration("D", NamedImports(<<ImportSpecifier(Undefined, "X")>>), DirWA),
    ExpressionStatement("f();") }

Codes == UNION {[1..n -> CodeStmts] : n \in 1..MaxCode}

InitPlugin ==
  /\ fs \in PluginSnapshots
  /\ exportMap = <<>>
  /\ ResolverIdle
  /\ ParserIdle
  /\ enabled \in BOOLEAN
  /\ directories \in PluginDirectories
  /\ order \in ReaddirOrders
  /\ maps = <<>>
  /\ built = FALSE
  /\ code = <<>>
  /\ id = NoFile
  /\ out = Null

\* one call transform(code, id); a call reads nothing an earlier call wrote,
\* so one call is observed in each behaviour
Transform ==
  /\ id = NoFile
  /\ \E nodes \in Codes, i \in ModuleIds :
       /\ code' = nodes
       /\ id' = i
       /\ out' = transform(nodes, i)
  /\ UNCHANGED <<fs, exportMap, barrelDir, exportName, visited, stack, walked, result, pc,
                 memo, parsedPath, parsed, enabled, directories, order, maps, built>>

NextPlugin == BuildStart \/ Transform

SpecPlugin == InitPlugin /\ [][NextPlugin]_vars

(***************************************************************************)
(* What the specification's words mean on a snapshot                       *)
(***************************************************************************)
MaxChain == 3

\* the call has returned
Done == pc = "done"

\* the index file names in the priority order the specification gives
Priority == <<"index.ts", "index.tsx", "index.js", "index.jsx">>

PriorityPath(dir, j) == dir \o <<Priority[j]>>

ExistingIndexes(dir) == {j \in 1..Len(Priority) : IsFile(PriorityPath(dir, j))}

HasIndex(dir) == ExistingIndexes(dir) # {}

\* "the barrel index" of a directory: its highest-priority existing index file
BarrelIndex(dir) == PriorityPath(dir, First(ExistingIndexes(dir)))

\* p is dir itself or lies below it
InsideDir(p, dir) == Len(p) >= Len(dir) /\ SubSeq(p, 1, Len(dir)) = dir

\* the positions of the export facts with the given name
FactsNamed(facts, name) == {i \in 1..Len(facts) : facts[i].name = name}

\* the positions of the facts re-exporting name from a non-relative specifier
ExternalFacts(facts, name) ==
  {i \in FactsNamed(facts, name) :
     facts[i].isReexport /\ HasModule(facts[i]) /\ ~isRelativeImport(facts[i].module)}

\* the positions of the wildcard facts with a relative specifier
WildcardFacts(facts) ==
  {i \in 1..Len(facts) :
     facts[i].name = "*" /\ HasModule(facts[i]) /\ isRelativeImport(facts[i].module)}

\* where a name exported by file comes from: the files that declare it and
\* the packages it is re-exported from, following at most k relative
\* re-exports (named, aliased or wildcard)
RECURSIVE Origins(_, _, _)

OriginsAt(target, name, k) == IF target = NoFile THEN {} ELSE Origins(target, name, k)

HopOrigins(ex, name, dir, k) ==
  IF ~(ex.isReexport /\ HasModule(ex) /\ ex.name \in {name, "*"}) THEN {}
  ELSE IF ~isRelativeImport(ex.module)
       THEN IF ex.name = "*" THEN {}
            ELSE {[file |-> ex.module, name |-> LocalOr(ex, name), hops |-> MaxChain - k]}
       ELSE OriginsAt(resolveModuleFile(dir, ex.module),
                      IF ex.name = "*" THEN name ELSE LocalOr(ex, name), k - 1)

FactOrigins(facts, name, dir, k) ==
  UNION {HopOrigins(facts[i], name, dir, k) : i \in 1..Len(facts)}

Origins(file, name, k) ==
  (IF DeclaresDirectly(parseExportsFromFile(file), name)
   THEN {[file |-> file, name |-> name, hops |-> MaxChain - k]} ELSE {})
  \cup (IF k = 0 THEN {}
        ELSE FactOrigins(parseExportsFromFile(file), name, PathDirname(file), k))

\* the files a file re-exports from through relative specifiers
Targets(file) ==
  {resolveModuleFile(PathDirname(file), ex.module) :
     ex \in {e \in {parseExportsFromFile(file)[i] : i \in 1..Len(parseExportsFromFile(file))} :
               e.isReexport /\ HasModule(e) /\ isRelativeImport(e.module)}} \ {NoFile}

RECURSIVE Reach(_, _)
Reach(files, k) ==
  IF k = 0 THEN files ELSE Reach(files \cup UNION {Targets(f) : f \in files}, k - 1)

\* no file reachable from file re-exports, directly or not, from itself
Acyclic(file) ==
  \A f \in Reach({file}, MaxChain) : f \notin Reach(Targets(f), MaxChain)

(***************************************************************************)
(* The claims                                                              *)
(***************************************************************************)
ChainEndsAt(o) ==
  o.hops >= 1 => result # Null /\ result.resolved = o.file /\ result.importName = o.name

\* C1: on an acyclic re-export graph, a name the barrel index exports through
\* a chain of relative named, aliased or wildcard re-exports that ends in the
\* one module declaring it resolves to that module's file and declared name
\* (stated where the directory has one index file and the name one origin).
C1_ChainUnwound ==
  (Done /\ HasIndex(barrelDir) /\ Acyclic(BarrelIndex(barrelDir))
        /\ Cardinality(ExistingIndexes(barrelDir)) = 1
        /\ Cardinality(Origins(BarrelIndex(barrelDir), exportName, MaxChain)) = 1)
  => \A o \in Origins(BarrelIndex(barrelDir), exportName, MaxChain) : ChainEndsAt(o)

\* C2: a result of the exportMap fallback is a path that is barrelDir itself
\* or lies below it, never a file of a directory whose path merely starts
\* with barrelDir's characters.
C2_FallbackInsideBarrel ==
  (Done /\ result # Null /\ result.chain = <<ExportMapMark>>)
  => InsideDir(result.resolved, barrelDir)

ChecksOf(dir, j, name) ==
  IF IsFile(PriorityPath(dir, j))
  THEN IndexFileChecks(parseExportsFromFile(PriorityPath(dir, j)), dir,
                       PriorityPath(dir, j), name)
  ELSE Null

ExternalFactReturned(ex) ==
  /\ result # Null
  /\ result.resolved = ex.module
  /\ result.importName = ex.local
  /\ result.external = TRUE

\* C4: when the barrel index has a fact re-exporting the requested name from
\* a non-relative specifier S, the call returns resolved = S, importName =
\* the source-side name of that re-export, and external = true.
C4_ExternalReexport ==
  (Done /\ HasIndex(barrelDir)
        /\ ExternalFacts(parseExportsFromFile(BarrelIndex(barrelDir)), exportName) # {})
  => ExternalFactReturned(
       parseExportsFromFile(BarrelIndex(barrelDir))
         [First(ExternalFacts(parseExportsFromFile(BarrelIndex(barrelDir)), exportName))])

C4_Witness ==
  /\ Done
  /\ exportName = "X"
  /\ HasIndex(barrelDir)
  /\ ExternalFacts(parseExportsFromFile(BarrelIndex(barrelDir)), exportName) # {}
  /\ result # Null /\ result.resolved = Pkg /\ result.importName = "Y"

\* what steps 1-4 give on the index files of dir, taken in priority order
DirChecks(dir, name) == FirstResult([j \in 1..Len(Priority) |-> ChecksOf(dir, j, name)])

\* the directories other than dir that the statements of idx re-export from
ReexportDirs(idx, dir) == {PathDirname(t) : t \in Targets(idx)} \ {dir}

\* C5: when steps 1-4 match in no index file of barrelDir and the barrel
\* index re-exports from a relative specifier whose target lies in another
\* directory D, the traversal runs steps 1-4 on D's index and returns its
\* success with the barrel index prefixed to the chain, whatever exportMap
\* holds (stated for acyclic re-export graphs).
C5_Ascension ==
  (Done /\ HasIndex(barrelDir) /\ Acyclic(BarrelIndex(barrelDir))
        /\ DirChecks(barrelDir, exportName) = Null)
  => \A d \in ReexportDirs(BarrelIndex(barrelDir), barrelDir) :
       DirChecks(d, exportName) # Null
       => /\ walked # Null
          /\ walked.resolved = DirChecks(d, exportName).resolved
          /\ walked.chain = <<BarrelIndex(barrelDir)>> \o DirChecks(d, exportName).chain

\* the work a frame has left: index files still to look at, statements
\* still to scan
FrameWeight(f) ==
  IF f.fn = "walkIndex" THEN 2 * Len(IndexFiles) + 5 - f.i
  ELSE IF f.fn = "processParentReexports" THEN Len(IndexFiles) + 3 - f.i
  ELSE MaxStmts + 2 - f.node

RECURSIVE StackWeight(_)
StackWeight(stk) == IF stk = <<>> THEN 0 ELSE FrameWeight(Head(stk)) + StackWeight(Tail(stk))

\* the steps a call can still take
Variant ==
  IF pc = "run" THEN 1 + StackWeight(stack) ELSE IF pc = "walked" THEN 1 ELSE 0

Running == pc \in {"run", "walked"}

\* a running call has a step to take: a frame to go on with, or the return
CanStep ==
  \/ pc = "walked"
  \/ pc = "run" /\ stack # <<>>
       /\ Top(stack).fn \in {"walkIndex", "processParentReexports",
                               "processSourceFileForReexports"}

\* C6: a call terminates on every snapshot, cyclic re-export graphs
\* included: each step of a running call lowers a natural-number measure of
\* the work left and leaves the call returned or with a next step to take,
\* so it returns after boundedly many steps.
C6_Terminates ==
  [][/\ Running => Variant' < Variant
     /\ Running' => CanStep']_vars

C6_Witness ==
  /\ Done
  /\ HasIndex(barrelDir)
  /\ ~Acyclic(BarrelIndex(barrelDir))
  /\ NestedIndex \in Reach({BarrelIndex(barrelDir)}, MaxChain)
  /\ BarrelIndex(barrelDir) \in Targets(NestedIndex)

\* the requested name is exported by no index file of dir, through any chain
ExportedNowhere(dir, name) ==
  \A j \in ExistingIndexes(dir) : Origins(PriorityPath(dir, j), name, MaxChain) = {}

\* a fact of a file reachable from dir's index files re-exports a name from
\* a relative specifier, and nothing exports that name there
DanglingFact(ex, dir) ==
  /\ ex.isReexport /\ HasModule(ex) /\ isRelativeImport(ex.module) /\ ex.name # "*"
  /\ OriginsAt(resolveModuleFile(dir, ex.module), ex.local, MaxChain) = {}

Dangling(dir) ==
  \E f \in Reach({PriorityPath(dir, j) : j \in ExistingIndexes(dir)}, MaxChain) :
     \E i \in 1..Len(parseExportsFromFile(f)) :
        DanglingFact(parseExportsFromFile(f)[i], PathDirname(f))

\* C7: the call returns null when no module reachable from barrelDir's index
\* files exports the requested name and exportMap has no entry for it under
\* barrelDir (stated for snapshots without dangling re-exports).
C7_NullWhenUnknown ==
  (Done /\ ExportedNowhere(barrelDir, exportName)
        /\ ~Dangling(barrelDir)
        /\ (exportName \in DOMAIN exportMap => ~InsideDir(exportMap[exportName], barrelDir)))
  => result = Null

\* the wildcard fact ex of the barrel index leads to target, the one file
\* among the index's wildcard targets that has the requested name
SoleWildcardSource(facts, dir, idx, target) ==
  /\ target # NoFile
  /\ DeclaresDirectly(parseExportsFromFile(target), exportName)
  /\ checkExternalReexport(facts, exportName, idx) = Null
  /\ checkDirectExport(facts, exportName, idx) = Null
  /\ checkRelativeReexport(facts, exportName, dir, idx) = Null
  /\ \A i \in WildcardFacts(facts) :
        resolveModuleFile(dir, facts[i].module) # target
        => ~DeclaresDirectly(parseExportsFromFile(resolveModuleFile(dir, facts[i].module)),
                             exportName)

WildcardSourceReturned(target) ==
  result # Null /\ result.resolved = target /\ result.importName = exportName

\* C8: when the barrel index has export * from './sub', the file ./sub
\* resolves to declares Z directly and no earlier step matches Z, the call
\* returns that file with importName Z (stated where no other wildcard
\* target of the index declares Z).
C8_WildcardSource ==
  (Done /\ HasIndex(barrelDir))
  => \A i \in WildcardFacts(parseExportsFromFile(BarrelIndex(barrelDir))) :
       SoleWildcardSource(parseExportsFromFile(BarrelIndex(barrelDir)), barrelDir,
                          BarrelIndex(barrelDir),
                          resolveModuleFile(barrelDir,
                            parseExportsFromFile(BarrelIndex(barrelDir))[i].module))
       => WildcardSourceReturned(
            resolveModuleFile(barrelDir,
              parseExportsFromFile(BarrelIndex(barrelDir))[i].module))

\* C9: a call for a name returns what the first call for that name returned
\* on the same snapshot and exportMap, whatever calls for other names ran in
\* between.
C9_SameResultAgain ==
  (Done /\ memo[exportName] # NotYet) => result = memo[exportName]

C9_Witness ==
  /\ Done
  /\ \A n \in Names : memo[n] # NotYet
  /\ walked # Null
  /\ result = memo[exportName]

\* C10: a result has external = true exactly when resolved is a module
\* specifier, which then is not relative; in every other result resolved is
\* an absolute path.
C10_ExternalFlag ==
  (Done /\ result # Null)
  => /\ result.external = TRUE <=> ~IsAbsolute(result.resolved)
     /\ result.external = TRUE => ~isRelativeImport(result.resolved)
     /\ result.external = FALSE => IsAbsolute(result.resolved)

C10_Witness ==
  /\ Done
  /\ result # Null
  /\ result.external = TRUE
  /\ result.resolved = Pkg

\* C11: when the index traversal yields nothing and exportMap maps the
\* requested name to a file F within barrelDir, the call returns resolved =
\* F, importName = the requested name, chain = ['<exportMap>'], not external.
C11_FallbackSuccess ==
  (Done /\ walked = Null /\ exportName \in DOMAIN exportMap
        /\ InsideDir(exportMap[exportName], barrelDir))
  => result = Result(exportMap[exportName], exportName, <<ExportMapMark>>, FALSE)

C11_Witness ==
  /\ Done
  /\ HasIndex(barrelDir)
  /\ walked = Null
  /\ exportName \in DOMAIN exportMap
  /\ IsFile(exportMap[exportName])
  /\ InsideDir(exportMap[exportName], barrelDir)
  /\ result # Null /\ result.chain = <<ExportMapMark>>

\* C12: a call never raises: with a missing index file, an unreadable index
\* or target file, a re-export specifier no file answers to, a cyclic
\* re-export or an exportMap entry out of scope, it does not end in an
\* exception.
C12_NeverRaises == pc # "threw"

C12_Witness ==
  /\ Done
  /\ result = Null
  /\ IsFile(IndexJs) /\ ~Readable(IndexJs)
  /\ ~IsFile(NestedIndex)
  /\ HasIndex(barrelDir) /\ Targets(BarrelIndex(barrelDir)) = {}
  /\ parseExportsFromFile(BarrelIndex(barrelDir)) # <<>>

\* C20: calls share no mutable state: no step changes exportMap or the
\* snapshot, and whatever calls ran before it, a call returns the value the
\* call has when run alone, a function of its arguments and the snapshot.
C20_NoSharedState ==
  [][/\ exportMap' = exportMap
     /\ fs' = fs
     /\ Done' => result' = resolveExportThroughBarrel(barrelDir', exportName', exportMap')]_vars

C20_Witness ==
  /\ Done
  /\ \E n \in Names : n # exportName /\ memo[n] # NotYet /\ memo[n] # Null
  /\ exportName \in DOMAIN exportMap
  /\ walked # Null

(***************************************************************************)
(* The claims about parseExportsFromFile                                   *)
(***************************************************************************)
\* parseExportsFromFile(ModuleA) has returned and ModuleA held a text
ParsedText == parsedPath = ModuleA /\ Readable(ModuleA)

DeclarationKinds ==
  {"FunctionDeclaration", "ClassDeclaration", "InterfaceDeclaration", "EnumDeclaration"}

\* export default ..., export = ..., export { default [as N] } from '...'
IsDefaultExport(node) ==
  \/ node.kind = "ExportAssignment"
  \/ node.kind \in DeclarationKinds /\ "default" \in node.modifiers
  \/ /\ node.kind = "ExportDeclaration"
     /\ \E i \in 1..Len(node.elements) :
           "default" \in {node.elements[i].name, node.elements[i].propertyName}

NotDefaultExport(node) == ~IsDefaultExport(node)

\* C16: default exports and re-exported defaults contribute nothing: the facts
\* of a text are the facts of the text without its export default, export =
\* and export { default ... } from statements.
C16_NoDefaultFacts ==
  ParsedText => parsed = ExportsOfNodes(SelectSeq(fs[ModuleA], NotDefaultExport))

\* the identifiers a binding name binds, in source order
RECURSIVE BoundNames(_)
BoundNames(name) ==
  IF name.kind = "Identifier" THEN <<name.text>>
  ELSE IF name.kind \in {"ArrayBindingPattern", "ObjectBindingPattern"}
       THEN Concat([i \in 1..Len(name.elements) |->
                      IF name.elements[i].kind = "BindingElement"
                      THEN BoundNames(name.elements[i].name) ELSE <<>>])
       ELSE <<>>

StatementBoundNames(node) ==
  Concat([i \in 1..Len(node.declarations) |-> BoundNames(node.declarations[i])])

IsExportedVariables(node) == node.kind = "VariableStatement" /\ "export" \in node.modifiers

\* C17: for exported variable statements the facts are one local declaration
\* per bound identifier, named by the bound identifier, for array patterns,
\* object patterns, renamed properties and one level of nesting.
C17_BoundIdentifiers ==
  (ParsedText /\ \A i \in 1..Len(fs[ModuleA]) : IsExportedVariables(fs[ModuleA][i]))
  => /\ [i \in 1..Len(parsed) |-> parsed[i].name]
          = Concat([i \in 1..Len(fs[ModuleA]) |-> StatementBoundNames(fs[ModuleA][i])])
     /\ \A i \in 1..Len(parsed) : ~parsed[i].isReexport

HasSyntaxError(text) == \E i \in 1..Len(text) : text[i] = Unparsed

IsParsed(node) == node # Unparsed

Under(p, dir) == Len(dir) < Len(p) /\ SubSeq(p, 1, Len(dir)) = dir

\* the position readdirSync lists a name at
Rank(name) == CHOOSE i \in 1..Len(order) : order[i] = name

\* file f is visited before file g by a depth-first scan in listing order
ScannedBefore(f, g) ==
  \E k \in 1..Len(f) :
    /\ k <= Len(g)
    /\ SubSeq(f, 1, k - 1) = SubSeq(g, 1, k - 1)
    /\ f[k] # g[k]
    /\ Rank(f[k]) < Rank(g[k])

\* file f declares name n directly
HasDirectFact(f, n) ==
  \E i \in 1..Len(parseExportsFromFile(f)) :
    /\ parseExportsFromFile(f)[i].name = n
    /\ n # "*"
    /\ ~parseExportsFromFile(f)[i].isReexport

\* the source files inside dirAbs that declare n directly
Declarers(dirAbs, n) ==
  {f \in DOMAIN fs : Under(f, dirAbs) /\ HasSourceExt(f) /\ HasDirectFact(f, n)}

\* every name some fact of the snapshot carries
FactNames ==
  UNION {{parseExportsFromFile(f)[i].name : i \in 1..Len(parseExportsFromFile(f))} : f \in DOMAIN fs}

IsFirstDeclarer(dirAbs, n, f) ==
  /\ f \in Declarers(dirAbs, n)
  /\ \A g \in Declarers(dirAbs, n) : g = f \/ ScannedBefore(f, g)

FirstVisitedIndex(map, dirAbs) ==
  /\ DOMAIN map = {n \in FactNames : Declarers(dirAbs, n) # {}}
  /\ \A n \in DOMAIN map : IsFirstDeclarer(dirAbs, n, map[n])

\* C19: the map buildStart holds for a configured directory is the
\* first-visited-wins index of direct exports: its names are the names
\* declared directly by a source file of the subtree, each mapped to the
\* first such file in scan order; re-export and wildcard facts make no
\* entry; a directory that does not exist has the empty map.
C19_FirstVisitedWins ==
  (built /\ enabled)
  => \A d \in Range(directories) :
       /\ FirstVisitedIndex(maps[d], PathResolve(SrcRoot, d))
       /\ ~ExistsSync(PathResolve(SrcRoot, d)) => maps[d] = <<>>

\* a name declared by several files of the subtree, one of them listed
\* before the file the index holds when names are sorted, beside a
\* re-export fact and a declaration in a file of another kind that are
\* not indexed
C19_Witness ==
  /\ built
  /\ enabled
  /\ DirW \in Range(directories)
  /\ "Z" \in FactNames
  /\ "Z" \notin DOMAIN maps[DirW]
  /\ Cardinality(Declarers(PathResolve(SrcRoot, DirW), "X")) > 1
  /\ maps[DirW]["X"] = NestedModule
  /\ IsFile(IndexTs)
  /\ fs[IndexTs] = <<ExportFrom("X", "Y", DotM)>>
  /\ "Y" \in DOMAIN maps[DirW]

(***************************************************************************)
(* Claims about transform                                                  *)
(***************************************************************************)
\* transform has been called
Called == id # NoFile

\* the specifier equals or lies under the directory
EqualsOrUnder(spec, dir) == spec = dir \/ Under(spec, dir)

\* the directories of the configuration a specifier equals or lies under
\* while src/<specifier>/index.ts exists
BarrelDirs(spec) ==
  {j \in 1..Len(directories) :
     EqualsOrUnder(spec, directories[j]) /\ IsFile(SrcRoot \o spec \o <<"index.ts">>)}

IsNamedImport(node) ==
  /\ node.kind = "ImportDeclaration"
  /\ node.namedBindings # NoNode
  /\ node.namedBindings.kind = "NamedImports"

\* a matched named import
Matched(node) == IsNamedImport(node) /\ BarrelDirs(node.moduleSpecifier) # {}

\* the map of the first configured directory that matches the specifier
MatchedMap(spec) == DirMap(directories[First(BarrelDirs(spec))])

\* what the name of an import element resolves to
Resolution(el, spec) ==
  resolveExportThroughBarrel(SrcRoot \o spec, OriginalName(el), MatchedMap(spec))

\* no name of the import can be resolved under a directory that matches
NoneResolved(node) ==
  \A j \in BarrelDirs(node.moduleSpecifier) :
    \A i \in 1..Len(node.namedBindings.elements) :
       ResolveElement(node.namedBindings.elements[i], node.moduleSpecifier, directories[j]) = Null

\* C13: when the code holds matched named imports and none of their names
\* can be resolved, transform returns a result whose code is the input.
C13_IdenticalWhenUnresolved ==
  ( /\ Called /\ enabled /\ IdMatches(id)
    /\ \E k \in 1..Len(code) : Matched(code[k])
    /\ \A k \in 1..Len(code) : Matched(code[k]) => NoneResolved(code[k]) )
  => (out # Null /\ out.code = CodeText(code))

\* C15: transform returns null when the plugin is disabled, when the id has
\* no source extension, and when no import declaration of the code is a
\* matched named import; default-only and namespace imports are not rewritten.
C15_NullWhenNothingMatches ==
  ( /\ Called
    /\ \/ ~enabled
       \/ ~(\E ext \in {".ts", ".tsx", ".js", ".jsx"} : EndsWith(JoinSegs(id), ext))
       \/ \A k \in 1..Len(code) : ~Matched(code[k]) )
  => out = Null

\* a default-only import and a namespace import from a barrel, given to the
\* enabled plugin in a source file
C15_Witness ==
  /\ Called /\ enabled /\ IdMatches(id)
  /\ Len(code) = 2
  /\ code[1] = ImportDeclaration("D", NoNode, DirWA)
  /\ code[2] = ImportDeclaration(Undefined, NamespaceImport("ns"), DirWA)
  /\ BarrelDirs(DirWA) # {}
  /\ out = Null

\* the location an import of a result is written from
Location(r, fileDir) ==
  IF r.external THEN JoinSegs(r.resolved)
  ELSE LET rel == RelativeSegs(NormSegs(fileDir, <<>>, TRUE), NormSegs(r.resolved, <<>>, TRUE))
       IN StripExtension(IF rel # <<>> /\ rel[1] = ".." THEN JoinSegs(rel)
                         ELSE "./" \o JoinSegs(rel))

\* the one import that binds local name L to export E of the location
DirectImport(r, el, fileDir) ==
  IF r.importName = el.name
  THEN "import { " \o r.importName \o " } from '" \o Location(r, fileDir) \o "';"
  ELSE "import { " \o r.importName \o " as " \o el.name \o " } from '"
         \o Location(r, fileDir) \o "';"

IsResolved(el, spec) == Resolution(el, spec) # Null

\* the text that stands for a matched named import: one direct import for
\* each element that resolves, then the import itself when an element does not
Rewritten(node, fileDir) ==
  LET els == node.namedBindings.elements
      spec == node.moduleSpecifier
      hit == SelectSeq(els, LAMBDA el : IsResolved(el, spec))
  IN JoinLines([i \in 1..Len(hit) |-> DirectImport(Resolution(hit[i], spec), hit[i], fileDir)]
               \o (IF Len(hit) < Len(els) THEN <<NodeText(node)>> ELSE <<>>))

StatementText(node, fileDir) ==
  IF Matched(node) THEN Rewritten(node, fileDir) ELSE NodeText(node)

\* C14: in the code transform returns every import element that resolves to
\* (location, E) is written as exactly one import binding its local name to
\* E of that location, with the package specifier verbatim for an external
\* result and a relative path without source extension for a local one.
C14_AliasPreserved ==
  ( /\ Called /\ out # Null
    /\ \E k \in 1..Len(code) : Matched(code[k]) /\ ~NoneResolved(code[k]) )
  => out.code = JoinLines([k \in 1..Len(code) |-> StatementText(code[k], PathDirname(id))])

(***************************************************************************)
(* Claims about the four steps on one index file                           *)
(***************************************************************************)
\* the positions of the facts that declare name in the file itself
DirectFacts(facts, name) == {i \in FactsNamed(facts, name) : ~facts[i].isReexport}

\* the file a relative specifier of a fact resolves to
TargetOf(ex, dir) == resolveModuleFile(dir, ex.module)

\* the target of the fact exists and declares name itself
TargetDeclares(ex, dir, name) ==
  /\ TargetOf(ex, dir) # NoFile
  /\ DeclaresDirectly(parseExportsFromFile(TargetOf(ex, dir)), name)

\* the positions of the facts re-exporting name from a relative specifier
\* whose target declares the source-side name itself
RelativeFacts(facts, name, dir) ==
  {i \in FactsNamed(facts, name) :
     /\ facts[i].isReexport /\ HasModule(facts[i]) /\ isRelativeImport(facts[i].module)
     /\ TargetDeclares(facts[i], dir, LocalOr(facts[i], name))}

\* the positions of the wildcard facts whose target declares name itself
DeclaringWildcards(facts, name, dir) ==
  {i \in WildcardFacts(facts) : TargetDeclares(facts[i], dir, name)}

\* the lowest-numbered step that matches in the facts, 0 when none does
LowestStep(facts, name, dir) ==
  IF ExternalFacts(facts, name) # {} THEN 1
  ELSE IF DirectFacts(facts, name) # {} THEN 2
  ELSE IF RelativeFacts(facts, name, dir) # {} THEN 3
  ELSE IF DeclaringWildcards(facts, name, dir) # {} THEN 4
  ELSE 0

\* the result of step 1 on the fact ex of index file idx
ExternalStep(ex, name, idx) == Result(ex.module, LocalOr(ex, name), <<idx>>, TRUE)

\* r is the result of step 2 in index file idx of directory dir
IsLocalStep(r, name, dir, idx) ==
  /\ r # Null
  /\ PathResolve(Cwd, r.resolved) = dir
  /\ r.importName = name
  /\ r.chain = <<idx>>
  /\ ~r.external

\* the result of step 3 on the fact ex
RelativeStep(ex, name, dir, idx) ==
  Result(TargetOf(ex, dir), LocalOr(ex, name), <<idx, TargetOf(ex, dir)>>, FALSE)

\* the result of step 4 on the wildcard fact ex
WildcardStep(ex, name, dir, idx) ==
  Result(TargetOf(ex, dir), name, <<idx, TargetOf(ex, dir)>>, FALSE)

\* r is the result of step s in the facts of index file idx of directory dir
IsStepResult(r, s, facts, name, dir, idx) ==
  CASE s = 1 -> r = ExternalStep(facts[First(ExternalFacts(facts, name))], name, idx)
    [] s = 2 -> IsLocalStep(r, name, dir, idx)
    [] s = 3 -> r = RelativeStep(facts[First(RelativeFacts(facts, name, dir))], name, dir, idx)
    [] s = 4 -> r = WildcardStep(facts[First(DeclaringWildcards(facts, name, dir))], name, dir, idx)
    [] OTHER -> TRUE

\* the barrel's index file is the one the traversal processes first
BarrelFacts == parseExportsFromFile(BarrelIndex(barrelDir))

BarrelStep == LowestStep(BarrelFacts, exportName, barrelDir)

\* C21: in the barrel's index file the steps are tried in the order external
\* re-export, local declaration, relative named re-export, wildcard
\* re-export, and the traversal returns the result of the lowest-numbered
\* step that matches, whatever the order of the facts in the file.
C21_StepPriority ==
  (Done /\ HasIndex(barrelDir))
  => IsStepResult(walked, BarrelStep, BarrelFacts, exportName, barrelDir,
                  BarrelIndex(barrelDir))

\* the facts of the j-th index file of the barrel
FactsAt(j) == parseExportsFromFile(PriorityPath(barrelDir, j))

\* the j-th index file of the barrel exists and no step matched in the
\* index files before it
Decides(j) ==
  /\ IsFile(PriorityPath(barrelDir, j))
  /\ \A h \in 1..(j - 1) : ChecksOf(barrelDir, h, exportName) = Null

\* C24: when an index file has a fact declaring the requested name itself
\* and no external re-export of it, the result is the directory of that
\* index file, the requested name and the chain of the index file alone.
C24_LocalDeclaration ==
  Done => \A j \in 1..Len(Priority) :
            ( /\ Decides(j)
              /\ DirectFacts(FactsAt(j), exportName) # {}
              /\ ExternalFacts(FactsAt(j), exportName) = {} )
            => IsLocalStep(walked, exportName, barrelDir, PriorityPath(barrelDir, j))

\* a name declared in index.ts after a wildcard re-export of a module that
\* declares it too
C24_Witness ==
  /\ Done
  /\ exportName = "X"
  /\ IsFile(IndexTs) /\ fs[IndexTs] = <<ExportStar(DotM), ExportConst("X")>>
  /\ IsFile(ModuleA) /\ fs[ModuleA] = <<ExportConst("X")>>
  /\ walked # Null
  /\ walked.chain = <<IndexTs>>
  /\ walked.resolved = BarrelA \o <<"">>

\* the positions of the facts re-exporting name from a relative specifier
NamedRelativeFacts(facts, name) ==
  {i \in FactsNamed(facts, name) :
     facts[i].isReexport /\ HasModule(facts[i]) /\ isRelativeImport(facts[i].module)}

\* C22: a fact re-exporting the requested name from a relative specifier
\* whose target file declares the source-side name itself gives that file,
\* the source-side name and the chain index file, target file; when the
\* target does not declare the source-side name the fact gives no result.
C22_RelativeReexport ==
  (Done /\ HasIndex(barrelDir))
  => /\ BarrelStep = 3
        => walked = RelativeStep(
                      BarrelFacts[First(RelativeFacts(BarrelFacts, exportName, barrelDir))],
                      exportName, barrelDir, BarrelIndex(barrelDir))
     /\ ( /\ BarrelStep = 0
          /\ NamedRelativeFacts(BarrelFacts, exportName) # {}
          /\ WildcardFacts(BarrelFacts) = {} )
        => (walked = Null \/ walked.chain[1] # BarrelIndex(barrelDir))

\* an aliased re-export: X of the barrel is Y of m.ts
C22_Witness ==
  /\ Done
  /\ exportName = "X"
  /\ IsFile(IndexTs) /\ fs[IndexTs] = <<ExportFrom("X", "Y", DotM)>>
  /\ walked = Result(ModuleA, "Y", <<IndexTs, ModuleA>>, FALSE)

\* C23: what the wildcard step returns is a file that declares the
\* requested name itself, never a file that only re-exports it.
C23_WildcardDeclares ==
  ( /\ Done /\ HasIndex(barrelDir)
    /\ ExternalFacts(BarrelFacts, exportName) = {}
    /\ DirectFacts(BarrelFacts, exportName) = {}
    /\ RelativeFacts(BarrelFacts, exportName, barrelDir) = {}
    /\ walked # Null
    /\ Len(walked.chain) = 2
    /\ walked.chain[1] = BarrelIndex(barrelDir) )
  => DeclaresDirectly(parseExportsFromFile(walked.resolved), exportName)

(***************************************************************************)
(* Claims about the traversal                                              *)
(***************************************************************************)
\* every existing index file of dir is in the visited set
AllVisited(dir) ==
  \A j \in 1..Len(Priority) : IsFile(PriorityPath(dir, j)) => PriorityPath(dir, j) \in visited

\* the frames of the call: walkIndex runs for barrelDir alone, as the
\* outermost frame; processParentReexports finds every index file of its
\* directory visited and so never reads one
OnlyBarrelDir ==
  \A k \in 1..Len(stack) :
    /\ stack[k].fn = "walkIndex" => (k = 1 /\ stack[k].dir = barrelDir)
    /\ stack[k].fn = "processParentReexports" => (k = 1 /\ AllVisited(stack[k].dir))
    /\ stack[k].fn # "processSourceFileForReexports"

\* walkIndex is about to hand an index file to processIndexFile
AtIndexFile ==
  /\ pc = "run"
  /\ stack # <<>>
  /\ Top(stack).fn = "walkIndex"
  /\ NextExisting(Top(stack).dir, Top(stack).i) <= Len(IndexFiles)

\* the index file walkIndex hands to processIndexFile
NextIndexFile == IndexPath(Top(stack).dir, NextExisting(Top(stack).dir, Top(stack).i))

EditsAt(k) == NodeEdits(code, k, PathDirname(id))

\* the text that stands for the k-th statement when its first edit alone
\* is applied
EditedText(k) == IF EditsAt(k) = <<>> THEN NodeText(code[k]) ELSE EditsAt(k)[1].text

\* C28: for every directories list transform records at most one edit for
\* an import declaration, and the code it returns is the input with each
\* rewritten declaration replaced by the text of its edit, all other text
\* unchanged.
C28_OneEditPerImport ==
  (Called /\ out # Null)
  => /\ \A k \in 1..Len(code) : Len(EditsAt(k)) <= 1
     /\ out.code = JoinLines([k \in 1..Len(code) |-> EditedText(k)])

\* the number of places text holds pat at
Occurrences(text, pat) ==
  Cardinality({i \in 1..(Len(text) - Len(pat) + 1) : SubSeq(text, i, i + Len(pat) - 1) = pat})

\* the number of import bindings of the local name in a text of import
\* declarations: as a named import (last or not), a default import or a
\* namespace import
Binds(text, localName) ==
  Occurrences(text, " " \o localName \o " }")
  + Occurrences(text, " " \o localName \o ",")
  + Occurrences(text, "import " \o localName \o " from")
  + Occurrences(text, "as " \o localName \o " from")

\* the local names an import declaration binds
LocalsOf(node) ==
  (IF node.name # Undefined THEN {node.name} ELSE {})
  \cup (IF node.namedBindings = NoNode THEN {}
        ELSE IF node.namedBindings.kind = "NamespaceImport" THEN {node.namedBindings.name}
        ELSE {node.namedBindings.elements[i].name : i \in 1..Len(node.namedBindings.elements)})

\* every import declaration of the code is matched by at most one of the
\* configured directories
SingleMatch ==
  \A k \in 1..Len(code) :
    code[k].kind = "ImportDeclaration"
    => Cardinality(BarrelDirs(code[k].moduleSpecifier)) <= 1

\* some names of the matched import resolve and some do not
Mixed(node) ==
  /\ Matched(node)
  /\ \E i \in 1..Len(node.namedBindings.elements) :
       IsResolved(node.namedBindings.elements[i], node.moduleSpecifier)
  /\ \E i \in 1..Len(node.namedBindings.elements) :
       ~IsResolved(node.namedBindings.elements[i], node.moduleSpecifier)

\* the code binds the local name once
BoundOnce(localName) == Binds(CodeText(code), localName) = 1

\* C25: when a named import from a barrel mixes names that resolve with
\* names that do not, the returned code binds every local name of that
\* import exactly once.
C25_EachLocalOnce ==
  (Called /\ out # Null /\ SingleMatch)
  => \A k \in 1..Len(code) :
       Mixed(code[k])
       => \A localName \in LocalsOf(code[k]) :
            BoundOnce(localName) => Binds(out.code, localName) = 1

\* C27: every local name bound by an import declaration that transform
\* rewrites is still bound in the returned code, the default import beside
\* the named imports included.
C27_BindingsKept ==
  (Called /\ out # Null /\ SingleMatch)
  => \A k \in 1..Len(code) :
       Matched(code[k])
       => \A localName \in LocalsOf(code[k]) : Binds(out.code, localName) >= 1
====
